---------------------------- MODULE Spec2Model ----------------------------
(* Model of the MOD16A2GF batch scripts:                                   *)
(*   src/preprocess/mod16a2gf_hdf2global_nc_500m.py  (variant "mod16")     *)
(*   src/preprocess/pre_ET.py                        (variant "pre_ET")    *)
(* Three specifications share the module:                                  *)
(*   Spec      - one run of main(): grouping, the worker pool, the        *)
(*               per-date pipeline, the file system                       *)
(*   SpecRerun - the same, with main() run again over the same directories *)
(*   SpecGroup - the grouping of an index in any row order, with a limit   *)
(*   SpecPhys  - the physical-value pass on one reprojected raster         *)
EXTENDS Integers, Sequences, FiniteSets, TLC

(* ------------------------------ bounds ------------------------------ *)
MaxKeys == 2
MaxTiles == 2
MaxRows == 3
MaxRuns == 2
NumPixels == 2

(* ------------------------- program constants ------------------------ *)
\* FALLBACK_SCALE = 0.1; scales are counted in tenths, so 0.1 is 1
FALLBACK_SCALE == 1
FALLBACK_FILL == 32767
\* max_workers = min(4, get_available_cpus()) / max_workers = 4
POOL_CAP == 4
\* pre_ET.py: test_mode = True; date_groups = date_groups[:2]
TEST_LIMIT == 2

Variants == {"mod16", "pre_ET"}
Keys == 1..MaxKeys
Tiles == 1..MaxTiles
\* one row of the index CSV: the timestamp key (datestr) and the tile
Rows == [datestr : Keys, tile : Tiles]

VARIABLES
  variant,      \* which script runs
  index,        \* the rows pd.read_csv(index_csv) returns, in file order
  limit_dates,  \* <<>> (None) or <<n>>
  groups,       \* the list of (datestr, rows) main() builds
  mainpc,       \* position of main()
  max_workers,  \* pool size
  run_no,       \* which invocation of main() this is
  pending,      \* submitted work items no worker has taken yet
  inflight,     \* keys whose pipeline a worker is running
  upc,          \* per key: position of process_one_datestr / process_one_date
  outcome,      \* per key: <<>> or <<"skip">>, <<"ok">>, <<"error">>
  reported,     \* keys whose result the collection loop printed
  fs,           \* the paths that exist
  partial,      \* the paths whose content is an unfinished write
  touched,      \* per key: the paths its pipeline created/read/wrote/removed in this run
  hist,         \* per key: the stages started in this run, in order
  failedAt,     \* per key: <<>> or <<stage>> whose external tool exited non-zero
  toolcalls,    \* external tool invocations of this run: <<key, tool>>
  physWrites,   \* per key: to_netcdf calls on the final output in this run
  starts,       \* per key: times a worker started the pipeline in this run
  entryExists,  \* per key: the final output existed when the pipeline was entered
  rmErr,        \* per key: a removal failed during cleanup
  prevAllOk,    \* the previous run ended with every unit ok or skipped
  da_attrs,     \* physical pass: the variable's attrs dict
  da_encoding,  \* physical pass: the variable's encoding dict
  da_values,    \* physical pass: raw pixels
  scale,        \* physical pass: resolved scale (tenths)
  fill,         \* physical pass: resolved no-data value
  out_values,   \* physical pass: written pixels, <<>> is NaN
  out_attrs,    \* physical pass: attrs of the written variable
  ds_has_var,   \* physical pass: the dataset holds the variable ET_500m
  ppc           \* physical pass: "open", "written", "keyerror" or "idle"

mainVars == <<mainpc, max_workers, run_no, pending, inflight, upc, outcome,
              reported, fs, partial, touched, hist, failedAt, toolcalls,
              physWrites, starts, entryExists, rmErr, prevAllOk>>
physVars == <<da_attrs, da_encoding, da_values, scale, fill, out_values,
              out_attrs, ds_has_var, ppc>>
vars == <<variant, index, limit_dates, groups, mainVars, physVars>>

(* ------------------------------ helpers ----------------------------- *)
None == <<>>
Some(v) == <<v>>
Min(a, b) == IF a < b THEN a ELSE b

\* dict.get(key, default) with the result boxed: None is <<>>
Get(d, k) == IF k \in DOMAIN d THEN Some(d[k]) ELSE None


(* --------------------- grouping (main, both variants) ---------------- *)
DatestrsOf(idx) == {idx[i].datestr : i \in DOMAIN idx}

RowsOf(idx, k) ==
  LET Test(r) == r.datestr = k IN SelectSeq(idx, Test)

RECURSIVE SortAsc(_)
SortAsc(S) ==
  IF S = {} THEN <<>>
  ELSE LET m == CHOOSE x \in S : \A y \in S : x <= y
       IN  <<m>> \o SortAsc(S \ {m})

\* df.groupby("datestr"): one (key, rows) pair per distinct key, keys ascending
\* (sort=True), each group's rows in the order of the frame
GroupBy(idx) ==
  LET ks == SortAsc(DatestrsOf(idx))
  IN  [i \in 1..Len(ks) |-> <<ks[i], RowsOf(idx, ks[i])>>]

\* list.sort(key=lambda x: x[0]): a stable sort on the key
RECURSIVE InsertByKey(_, _)
InsertByKey(sorted, g) ==
  IF sorted = <<>> THEN <<g>>
  ELSE IF g[1] < Head(sorted)[1] THEN <<g>> \o sorted
  ELSE <<Head(sorted)>> \o InsertByKey(Tail(sorted), g)

RECURSIVE SortByKey(_)
SortByKey(gs) ==
  IF gs = <<>> THEN <<>>
  ELSE InsertByKey(SortByKey(SubSeq(gs, 1, Len(gs) - 1)), gs[Len(gs)])

\* a faulty variant of Slice: keeps one unit too many
SliceOneMore(gs, n) == SubSeq(gs, 1, Min(n + 1, Len(gs)))

\* groups[:n] for n >= 0
Slice(gs, n) == SubSeq(gs, 1, Min(n, Len(gs)))

\* main(): groupby, sort, optional truncation
MakeGroups(idx, lim) ==
  LET g == SortByKey(GroupBy(idx))
  IN  IF lim = None THEN g ELSE Slice(g, lim[1])

\* limit_dates as each script sets it: a parameter of main() in mod16,
\* the hardcoded test_mode slice in pre_ET
LimitChoices(v) ==
  IF v = "mod16" THEN {None} \cup {Some(n) : n \in 0..(MaxKeys + 1)}
  ELSE {Some(TEST_LIMIT)}

AnyIndexes == UNION {[1..n -> Rows] : n \in 0..MaxRows}

InertMain ==
  /\ mainpc = "start" /\ max_workers = POOL_CAP /\ run_no = 1
  /\ pending = {} /\ inflight = {}
  /\ upc = [k \in Keys |-> "none"]
  /\ outcome = [k \in Keys |-> None]
  /\ reported = {} /\ fs = {} /\ partial = {}
  /\ touched = [k \in Keys |-> {}]
  /\ hist = [k \in Keys |-> <<>>]
  /\ failedAt = [k \in Keys |-> None]
  /\ toolcalls = {}
  /\ physWrites = [k \in Keys |-> 0]
  /\ starts = [k \in Keys |-> 0]
  /\ entryExists = [k \in Keys |-> FALSE]
  /\ rmErr = [k \in Keys |-> FALSE]
  /\ prevAllOk = FALSE

InertPhys ==
  /\ da_attrs = <<>> /\ da_encoding = <<>> /\ da_values = <<>>
  /\ scale = None /\ fill = None /\ out_values = <<>> /\ out_attrs = <<>>
  /\ ds_has_var = FALSE /\ ppc = "idle"

InitGroup ==
  /\ variant \in Variants
  /\ index \in AnyIndexes
  /\ limit_dates \in LimitChoices(variant)
  /\ groups = <<>>
  /\ InertMain /\ InertPhys

\* main() up to the truncated group list
GroupStep ==
  /\ mainpc = "start"
  /\ groups' = MakeGroups(index, limit_dates)
  /\ mainpc' = "grouped"
  /\ UNCHANGED <<variant, index, limit_dates, physVars, max_workers, run_no,
                 pending, inflight, upc, outcome, reported, fs, partial,
                 touched, hist, failedAt, toolcalls, physWrites, starts,
                 entryExists, rmErr, prevAllOk>>

NextGroup == GroupStep

SpecGroup == InitGroup /\ [][NextGroup]_vars

\* C7: Grouping correctness. Once main() has built its group list from an
\* index in any row order: there is one Work Unit per distinct timestamp key
\* (the first min(N, count) of them under a limit N), the units are in
\* strictly ascending key order and are the smallest keys of the index, every
\* unit is non-empty, all its rows carry its key, and it holds each index row
\* of its key exactly once.
C7_GroupingCorrect ==
  mainpc = "grouped" =>
    LET K == DatestrsOf(index)
        cnt == IF limit_dates = None THEN Cardinality(K)
               ELSE Min(limit_dates[1], Cardinality(K))
    IN  /\ Len(groups) = cnt
        /\ \A i \in 1..Len(groups) :
             /\ groups[i][1] \in K
             /\ Cardinality({k \in K : k < groups[i][1]}) = i - 1
             /\ groups[i][2] # <<>>
             /\ \A j \in 1..Len(groups[i][2]) :
                  groups[i][2][j].datestr = groups[i][1]
             /\ Len(groups[i][2]) =
                  Cardinality({p \in DOMAIN index : index[p].datestr = groups[i][1]})
             /\ \A p \in DOMAIN index :
                  index[p].datestr = groups[i][1] =>
                    \E j \in 1..Len(groups[i][2]) : groups[i][2][j] = index[p]
        /\ \A i \in 1..Len(groups) : \A j \in 1..Len(groups) :
             i < j => groups[i][1] < groups[j][1]

\* an index discovered out of key order, grouped under a limit of 2 into two
\* units, the first holding two rows
C7_Witness ==
  /\ mainpc = "grouped"
  /\ Len(index) = 3
  /\ index[1].datestr > index[2].datestr
  /\ Len(groups) = 2
  /\ Len(groups[1][2]) = 2
  /\ limit_dates = Some(2)


(* ------------------------ physical-value pass ------------------------ *)
FillVals == {0, 500, FALLBACK_FILL}
ScaleVals == {1, 10}
RawVals == {0, 500, FALLBACK_FILL}

\* every dict with keys among ks and values in vs
Dicts(ks, vs) == UNION {[S -> vs] : S \in SUBSET ks}

AttrDicts ==
  {a @@ b : a \in Dicts({"scale_factor"}, ScaleVals),
            b \in Dicts({"_FillValue", "missing_value"}, FillVals)}

EncodingDicts == Dicts({"_FillValue"}, FillVals)

\* attrs.get("scale_factor", FALLBACK_SCALE)
ResolveScale(attrs) ==
  IF "scale_factor" \in DOMAIN attrs THEN attrs["scale_factor"] ELSE FALLBACK_SCALE

\* mod16: the chain of "if fill is None" lookups
ResolveFill_mod16(attrs, enc) ==
  LET f1 == Get(attrs, "_FillValue")
      f2 == IF f1 = None THEN Get(attrs, "missing_value") ELSE f1
      f3 == IF f2 = None THEN Get(enc, "_FillValue") ELSE f2
  IN  IF f3 = None THEN FALLBACK_FILL ELSE f3[1]

\* Python truth value of a number or None
Truthy(x) == x # None /\ x[1] # 0

\* Python's "x or y"
PyOr(x, y) == IF Truthy(x) THEN x ELSE y

\* pre_ET: attrs.get(..) or attrs.get(..) or encoding.get(..) or 32767
ResolveFill_pre_ET(attrs, enc) ==
  PyOr(PyOr(PyOr(Get(attrs, "_FillValue"), Get(attrs, "missing_value")),
            Get(enc, "_FillValue")),
       Some(FALLBACK_FILL))[1]

ResolveFill(v, attrs, enc) ==
  IF v = "mod16" THEN ResolveFill_mod16(attrs, enc)
  ELSE ResolveFill_pre_ET(attrs, enc)

\* a faulty variant of MaskAndScale: scales first, compares the scaled value
ScaleThenMask(vals, f, s) ==
  [i \in DOMAIN vals |-> IF vals[i] * s # f THEN Some(vals[i] * s) ELSE None]

\* da.where(da != fill), then da.astype("float32") * float(scale); NaN is <<>>
MaskAndScale(vals, f, s) ==
  LET masked == [i \in DOMAIN vals |-> IF vals[i] # f THEN Some(vals[i]) ELSE None]
  IN  [i \in DOMAIN vals |->
         IF masked[i] = None THEN None ELSE Some(masked[i][1] * s)]

\* attrs.update({...}) then the pops of the packing keys
Packing == {"scale_factor", "add_offset", "_FillValue", "missing_value", "valid_range"}
UpdatedAttrs(attrs, s, f) ==
  [k \in (DOMAIN attrs \ Packing) |-> attrs[k]]
    @@ [scale_applied |-> s, fillvalue_masked |-> f]

InitPhys ==
  /\ variant \in Variants
  /\ index = <<>> /\ limit_dates = None /\ groups = <<>>
  /\ InertMain
  /\ ds_has_var \in BOOLEAN
  /\ IF ds_has_var
       THEN /\ da_attrs \in AttrDicts
            /\ da_encoding \in EncodingDicts
            /\ da_values \in [1..NumPixels -> RawVals]
       ELSE da_attrs = <<>> /\ da_encoding = <<>> /\ da_values = <<>>
  /\ scale = None /\ fill = None /\ out_values = <<>> /\ out_attrs = <<>>
  /\ ppc = "open"

\* the dataset lacks the variable: KeyError before anything is written
PhysMissingVariable ==
  /\ ppc = "open" /\ ~ds_has_var
  /\ ppc' = "keyerror"
  /\ UNCHANGED <<variant, index, limit_dates, groups, mainVars, da_attrs,
                 da_encoding, da_values, scale, fill, out_values, out_attrs,
                 ds_has_var>>

\* apply_fill_and_scale (mod16) / step 4 of process_one_date (pre_ET)
PhysPass ==
  /\ ppc = "open" /\ ds_has_var
  /\ scale' = Some(ResolveScale(da_attrs))
  /\ fill' = Some(ResolveFill(variant, da_attrs, da_encoding))
  /\ out_values' = MaskAndScale(da_values, fill'[1], scale'[1])
  /\ out_attrs' = UpdatedAttrs(da_attrs, scale'[1], fill'[1])
  /\ ppc' = "written"
  /\ UNCHANGED <<variant, index, limit_dates, groups, mainVars, da_attrs,
                 da_encoding, da_values, ds_has_var>>

NextPhys == PhysMissingVariable \/ PhysPass

SpecPhys == InitPhys /\ [][NextPhys]_vars

\* C5: Fallback precedence. After the physical-value pass of either variant
\* the resolved no-data value is the first present of the "_FillValue"
\* attribute, the "missing_value" attribute and the encoding "_FillValue",
\* whatever its numeric value (0 included), and 32767 only when all three are
\* absent; the resolved scale is the "scale_factor" attribute when present and
\* 0.1 otherwise.
C5_FallbackPrecedence ==
  ppc = "written" =>
    /\ fill = Some(IF "_FillValue" \in DOMAIN da_attrs THEN da_attrs["_FillValue"]
                   ELSE IF "missing_value" \in DOMAIN da_attrs
                          THEN da_attrs["missing_value"]
                   ELSE IF "_FillValue" \in DOMAIN da_encoding
                          THEN da_encoding["_FillValue"]
                   ELSE 32767)
    /\ scale = Some(IF "scale_factor" \in DOMAIN da_attrs
                      THEN da_attrs["scale_factor"] ELSE 1)

\* C6: Scale application after masking. After the physical-value pass every
\* written pixel is "no data" exactly when its raw value equals the resolved
\* no-data value, and is otherwise the raw value times the resolved scale; a
\* raw pixel equal to the no-data value is never written as a scaled number.
C6_MaskThenScale ==
  ppc = "written" =>
    \A i \in DOMAIN da_values :
      /\ (out_values[i] = None) <=> (da_values[i] = fill[1])
      /\ out_values[i] # None => out_values[i][1] = da_values[i] * scale[1]
      /\ da_values[i] = fill[1] => out_values[i] # Some(da_values[i] * scale[1])

\* raw 500 at scale 0.1 with no-data 32767 written as 50.0 (500 tenths), next
\* to a raw 32767 written as no data
C6_Witness ==
  /\ ppc = "written"
  /\ scale = Some(1) /\ fill = Some(32767)
  /\ da_values[1] = 500 /\ out_values[1] = Some(500)
  /\ da_values[2] = 32767 /\ out_values[2] = None


(* ------------------------------ paths -------------------------------- *)
\* A path is the configured root, the subdirectory named by a timestamp key
\* (0: none), the timestamp key in the file name (0: none) and the rest of the
\* name ("" for a directory).
OutDir == [root |-> "out", sub |-> 0, stamp |-> 0, name |-> ""]
TmpRoot == [root |-> "tmp", sub |-> 0, stamp |-> 0, name |-> ""]
InDir(d, k, n) == [root |-> d.root, sub |-> d.sub, stamp |-> k, name |-> n]

\* out_dir / f"MOD16A2GF_{datestr}_..._phys.nc"
OutPhys(k) == InDir(OutDir, k, "phys.nc")
\* out_dir / f"MOD16A2GF_{datestr}_..._raw.nc"
OutWarp(k) == InDir(OutDir, k, "raw.nc")

\* a faulty variant of TmpDir: one scratch directory for every timestamp
TmpDirShared(k) == [root |-> "tmp", sub |-> 0, stamp |-> 0, name |-> "scratch"]

\* tmp_root / datestr
TmpDir(k) == [root |-> "tmp", sub |-> k, stamp |-> 0, name |-> ""]

\* tmp_dir / f"{datestr}_{SDS_NAME}_sinu.vrt", temp_dir / f"{datestr}_ET_500m.vrt"
VrtFile(k) == InDir(TmpDir(k), k, "vrt")
\* tmp_dir / f"{datestr}_{SDS_NAME}_sinu.nc" (mod16 only)
NcSinu(k) == InDir(TmpDir(k), k, "sinu.nc")
\* temp_dir / "file_list.txt" (pre_ET only)
FileList(k) == InDir(TmpDir(k), 0, "file_list.txt")

(* ----------------------------- pipeline ------------------------------ *)
ExitCodes == {0, 1}

\* a faulty variant of RunRaises: the exit status is not checked
RunIgnoresExit(rc) == FALSE

\* subprocess.run(cmd, check=True) / "if result.returncode != 0: raise"
RunRaises(rc) == rc # 0

\* a faulty variant of ShouldSkip: the existing output is not looked at
NeverSkip(files, k) == FALSE

\* if out_phys.exists(): return "[SKIP]"
ShouldSkip(files, k) == OutPhys(k) \in files

\* a faulty variant of CleanupOutcome: a removal failure fails the unit
CleanupPropagates(err) == IF err THEN "error" ELSE "ok"

\* try: unlink, unlink, rmdir / except: pass / return "[OK]"
CleanupOutcome(err) == "ok"

\* the files the cleanup removes, in order
CleanupList(v, k) ==
  IF v = "mod16" THEN <<VrtFile(k), NcSinu(k), TmpDir(k)>>
  ELSE <<FileList(k), VrtFile(k), TmpDir(k)>>

\* the stage after the mosaic
AfterMosaic(v) == IF v = "mod16" THEN "materialize" ELSE "reproject"

\* the input of gdalwarp
WarpInput(v, k) == IF v = "mod16" THEN NcSinu(k) ELSE VrtFile(k)

UnitKeys(gs) == {gs[i][1] : i \in DOMAIN gs}

cfgVars == <<variant, index, limit_dates, max_workers>>

\* one step of the pipeline of unit k: stage stg is entered (when not ""),
\* the unit moves to nxt or returns with outcome nxt
Step(k, stg, nxt, newfs, newpartial, paths, calls, toolfailed, writes, rerr) ==
  /\ hist' = [hist EXCEPT ![k] = IF stg = "" THEN @ ELSE Append(@, stg)]
  /\ IF nxt \in {"skip", "ok", "error"}
       THEN /\ upc' = [upc EXCEPT ![k] = "returned"]
            /\ outcome' = [outcome EXCEPT ![k] = Some(nxt)]
            /\ inflight' = inflight \ {k}
       ELSE /\ upc' = [upc EXCEPT ![k] = nxt]
            /\ UNCHANGED <<outcome, inflight>>
  /\ fs' = newfs
  /\ partial' = newpartial
  /\ touched' = [touched EXCEPT ![k] = @ \cup paths]
  /\ toolcalls' = toolcalls \cup calls
  /\ failedAt' = IF toolfailed THEN [failedAt EXCEPT ![k] = Some(stg)] ELSE failedAt
  /\ physWrites' = [physWrites EXCEPT ![k] = @ + writes]
  /\ rmErr' = [rmErr EXCEPT ![k] = rerr]
  /\ UNCHANGED <<cfgVars, groups, mainpc, run_no, pending, reported, starts,
                 entryExists, prevAllOk, physVars>>

\* a stage that is one external tool: non-zero exit raises out of the unit;
\* a failed tool may or may not leave its output file behind
ToolStage(k, stg, tool, input, output, nxt) ==
  \E rc \in ExitCodes : \E left \in BOOLEAN :
    /\ (rc = 0) => left
    /\ Step(k, stg,
            IF RunRaises(rc) THEN "error" ELSE nxt,
            IF left THEN fs \cup {output} ELSE fs,
            partial,
            {input, output},
            {<<k, tool>>},
            rc # 0, 0, FALSE)

\* mkdir of the shared roots, (pre_ET: and of the temp dir,) the skip check,
\* (mod16: then the mkdir of the temp dir)
SkipCheck(k) ==
  /\ upc[k] = "entry"
  /\ LET early == IF variant = "pre_ET" THEN {TmpDir(k)} ELSE {}
         roots == {OutDir, TmpRoot}
     IN  IF ShouldSkip(fs, k)
           THEN Step(k, "skipcheck", "skip", fs \cup roots \cup early, partial,
                     roots \cup early \cup {OutPhys(k)}, {}, FALSE, 0, FALSE)
           ELSE Step(k, "skipcheck", "mosaic", fs \cup roots \cup {TmpDir(k)},
                     partial, roots \cup {TmpDir(k), OutPhys(k)}, {}, FALSE, 0, FALSE)

\* mod16: run(cmd_vrt)
Mosaic_mod16(k) ==
  /\ variant = "mod16" /\ upc[k] = "mosaic"
  /\ ToolStage(k, "mosaic", "gdalbuildvrt", VrtFile(k), VrtFile(k), AfterMosaic(variant))

\* pre_ET: the file list is written, then relative_to(raw_data_dir) raises
\* ValueError when the temp dir is not below the directory of the unit's
\* first HDF file (which the paths in the index decide); no tool is called
Mosaic_pre_ET_ValueError(k) ==
  /\ variant = "pre_ET" /\ upc[k] = "mosaic"
  /\ Step(k, "mosaic", "error", fs \cup {FileList(k)}, partial, {FileList(k)},
          {}, FALSE, 0, FALSE)

\* pre_ET: the file list is written, gdalbuildvrt runs on it
Mosaic_pre_ET(k) ==
  /\ variant = "pre_ET" /\ upc[k] = "mosaic"
  /\ \E rc \in ExitCodes : \E left \in BOOLEAN :
       /\ (rc = 0) => left
       /\ Step(k, "mosaic",
               IF RunRaises(rc) THEN "error" ELSE AfterMosaic(variant),
               fs \cup {FileList(k)} \cup (IF left THEN {VrtFile(k)} ELSE {}),
               partial,
               {FileList(k), VrtFile(k)},
               {<<k, "gdalbuildvrt">>},
               rc # 0, 0, FALSE)

\* mod16: run(cmd_nc)
Materialize(k) ==
  /\ upc[k] = "materialize"
  /\ ToolStage(k, "materialize", "gdal_translate", VrtFile(k), NcSinu(k), "reproject")

\* run(cmd_warp) / run_shell_command(["gdalwarp", ...])
Reproject(k) ==
  /\ upc[k] = "reproject"
  /\ ToolStage(k, "reproject", "gdalwarp", WarpInput(variant, k), OutWarp(k), "physical")

\* the reprojected file lacks the variable: KeyError, nothing written
PhysKeyError(k) ==
  /\ upc[k] = "physical"
  /\ Step(k, "physical", "error", fs, partial, {OutWarp(k)}, {}, FALSE, 0, FALSE)

\* the physical-value pass up to the start of to_netcdf: the final output
\* file is created and is being written
PhysOpen(k) ==
  /\ upc[k] = "physical"
  /\ Step(k, "physical", "writing", fs \cup {OutPhys(k)},
          partial \cup {OutPhys(k)}, {OutWarp(k), OutPhys(k)}, {}, FALSE, 1, FALSE)

\* to_netcdf completes
PhysWriteDone(k) ==
  /\ upc[k] = "writing"
  /\ Step(k, "", "cleanup", fs, partial \ {OutPhys(k)}, {OutPhys(k)}, {},
          FALSE, 0, FALSE)

\* to_netcdf raises part-way (or the worker is interrupted): the exception
\* leaves the unit, the file stays as it is
PhysWriteFail(k) ==
  /\ upc[k] = "writing"
  /\ Step(k, "", "error", fs, partial, {OutPhys(k)}, {}, FALSE, 0, FALSE)

\* try: unlink; unlink; rmdir / except: pass.  failstep 0: no removal fails;
\* failstep n: the n-th removal raises and the later ones are not attempted
Cleanup(k) ==
  /\ upc[k] = "cleanup"
  /\ \E failstep \in 0..3 :
       LET lst == CleanupList(variant, k)
           gone == IF failstep = 0 THEN {lst[i] : i \in 1..3}
                   ELSE {lst[i] : i \in 1..(failstep - 1)}
           tried == IF failstep = 0 THEN {lst[i] : i \in 1..3}
                    ELSE {lst[i] : i \in 1..failstep}
       IN  Step(k, "cleanup", CleanupOutcome(failstep # 0), fs \ gone,
                partial, tried, {}, FALSE, 0, failstep # 0)

(* ----------------------------- dispatcher ---------------------------- *)
\* a faulty variant of CanTake: one worker more than max_workers
CanTakeOneMore(running, m) == Cardinality(running) <= m

\* a pool of max_workers processes, each running one work item at a time
CanTake(running, m) == Cardinality(running) < m

\* a worker process takes the next work item and enters the pipeline
Take(k) ==
  /\ k \in pending
  /\ CanTake(inflight, max_workers)
  /\ pending' = pending \ {k}
  /\ inflight' = inflight \cup {k}
  /\ upc' = [upc EXCEPT ![k] = "entry"]
  /\ starts' = [starts EXCEPT ![k] = @ + 1]
  /\ entryExists' = [entryExists EXCEPT ![k] = OutPhys(k) \in fs]
  /\ UNCHANGED <<cfgVars, groups, mainpc, run_no, outcome, reported, fs,
                 partial, touched, hist, failedAt, toolcalls, physWrites,
                 rmErr, prevAllOk, physVars>>

\* main(): read the index, group, truncate, submit every unit to the pool
\* (pre_ET also creates the output and temp roots first)
MainStart ==
  /\ mainpc = "start"
  /\ groups' = MakeGroups(index, limit_dates)
  /\ pending' = UnitKeys(groups')
  /\ upc' = [k \in Keys |-> IF k \in UnitKeys(groups') THEN "queued" ELSE "none"]
  /\ fs' = IF variant = "pre_ET" THEN fs \cup {OutDir, TmpRoot} ELSE fs
  /\ mainpc' = "collecting"
  /\ UNCHANGED <<cfgVars, run_no, inflight, outcome, reported, partial,
                 touched, hist, failedAt, toolcalls, physWrites, starts,
                 entryExists, rmErr, prevAllOk, physVars>>

\* f.result() of a failed unit raises; only pre_ET catches it
ResultRaises(v, oc) == v = "mod16" /\ oc = Some("error")

\* for f in as_completed(futs): print(f.result())
Report(k) ==
  /\ mainpc = "collecting"
  /\ upc[k] = "returned" /\ k \notin reported
  /\ IF ResultRaises(variant, outcome[k])
       THEN mainpc' = "raising" /\ UNCHANGED reported
       ELSE reported' = reported \cup {k} /\ UNCHANGED mainpc
  /\ UNCHANGED <<cfgVars, groups, run_no, pending, inflight, upc, outcome, fs,
                 partial, touched, hist, failedAt, toolcalls, physWrites,
                 starts, entryExists, rmErr, prevAllOk, physVars>>

\* every future was yielded: the with-block ends, main() returns
MainExit ==
  /\ mainpc = "collecting"
  /\ reported = UnitKeys(groups)
  /\ mainpc' = "done"
  /\ UNCHANGED <<cfgVars, groups, run_no, pending, inflight, upc, outcome,
                 reported, fs, partial, touched, hist, failedAt, toolcalls,
                 physWrites, starts, entryExists, rmErr, prevAllOk, physVars>>

\* the exception leaves the with-block: shutdown(wait=True) lets the queued
\* and running units finish, then the exception leaves main()
MainAbort ==
  /\ mainpc = "raising"
  /\ pending = {} /\ inflight = {}
  /\ mainpc' = "aborted"
  /\ UNCHANGED <<cfgVars, groups, run_no, pending, inflight, upc, outcome,
                 reported, fs, partial, touched, hist, failedAt, toolcalls,
                 physWrites, starts, entryExists, rmErr, prevAllOk, physVars>>

\* the script is run again over the same index and directories
Rerun ==
  /\ mainpc \in {"done", "aborted"}
  /\ run_no < MaxRuns
  /\ run_no' = run_no + 1
  /\ prevAllOk' = \A k \in UnitKeys(groups) : outcome[k] \in {Some("ok"), Some("skip")}
  /\ mainpc' = "start"
  /\ pending' = {} /\ inflight' = {}
  /\ upc' = [k \in Keys |-> "none"]
  /\ outcome' = [k \in Keys |-> None]
  /\ reported' = {}
  /\ hist' = [k \in Keys |-> <<>>]
  /\ failedAt' = [k \in Keys |-> None]
  /\ toolcalls' = {}
  /\ physWrites' = [k \in Keys |-> 0]
  /\ starts' = [k \in Keys |-> 0]
  /\ entryExists' = [k \in Keys |-> FALSE]
  /\ rmErr' = [k \in Keys |-> FALSE]
  /\ touched' = [k \in Keys |-> {}]
  /\ UNCHANGED <<cfgVars, groups, fs, partial, physVars>>

\* build_index: the scanned granules sorted by (datestr, tile)
RECURSIVE BuildIndex(_)
BuildIndex(S) ==
  IF S = {} THEN <<>>
  ELSE LET m == CHOOSE x \in S : \A y \in S :
                  \/ x.datestr < y.datestr
                  \/ (x.datestr = y.datestr /\ x.tile <= y.tile)
       IN  <<m>> \o BuildIndex(S \ {m})

\* the indexes of scans in which every date present has every tile
BuiltIndexes ==
  {BuildIndex({r \in Rows : r.datestr \in K}) : K \in (SUBSET Keys) \ {{}}}

\* the CPU counts tried: one CPU, and a node with more CPUs than the pool uses
CpuCounts == {1, 2 * POOL_CAP}

\* max_workers = min(4, get_available_cpus()) in mod16, 4 in pre_ET
WorkerChoices(v) ==
  IF v = "mod16" THEN {Min(POOL_CAP, c) : c \in CpuCounts} ELSE {POOL_CAP}

Init ==
  /\ variant \in Variants
  /\ index \in BuiltIndexes
  /\ limit_dates = IF variant = "mod16" THEN None ELSE Some(TEST_LIMIT)
  /\ groups = <<>>
  /\ mainpc = "start"
  /\ max_workers \in WorkerChoices(variant)
  /\ run_no = 1
  /\ pending = {} /\ inflight = {}
  /\ upc = [k \in Keys |-> "none"]
  /\ outcome = [k \in Keys |-> None]
  /\ reported = {} /\ fs = {} /\ partial = {}
  /\ touched = [k \in Keys |-> {}]
  /\ hist = [k \in Keys |-> <<>>]
  /\ failedAt = [k \in Keys |-> None]
  /\ toolcalls = {}
  /\ physWrites = [k \in Keys |-> 0]
  /\ starts = [k \in Keys |-> 0]
  /\ entryExists = [k \in Keys |-> FALSE]
  /\ rmErr = [k \in Keys |-> FALSE]
  /\ prevAllOk = FALSE
  /\ InertPhys

Next ==
  \/ MainStart
  \/ \E k \in Keys : Take(k)
  \/ \E k \in Keys : SkipCheck(k)
  \/ \E k \in Keys : Mosaic_mod16(k)
  \/ \E k \in Keys : Mosaic_pre_ET_ValueError(k)
  \/ \E k \in Keys : Mosaic_pre_ET(k)
  \/ \E k \in Keys : Materialize(k)
  \/ \E k \in Keys : Reproject(k)
  \/ \E k \in Keys : PhysKeyError(k)
  \/ \E k \in Keys : PhysOpen(k)
  \/ \E k \in Keys : PhysWriteDone(k)
  \/ \E k \in Keys : PhysWriteFail(k)
  \/ \E k \in Keys : Cleanup(k)
  \/ \E k \in Keys : Report(k)
  \/ MainExit
  \/ MainAbort

\* one invocation of main()
Spec == Init /\ [][Next]_vars

NextRerun == Next \/ Rerun

\* main() invoked up to MaxRuns times over the same index and directories
SpecRerun == Init /\ [][NextRerun]_vars


(* ------------------------- claims on Spec ---------------------------- *)
Units == UnitKeys(groups)
Terminal == mainpc \in {"done", "aborted"}
CallsOf(k) == {c \in toolcalls : c[1] = k}
IsPrefix(s, t) == Len(s) <= Len(t) /\ \A i \in 1..Len(s) : s[i] = t[i]

\* C1: Idempotent skip. A unit whose final output existed when its pipeline
\* was entered invokes no external tool, does not write the final output and
\* returns the skip outcome; and in a run that follows a run in which every
\* unit succeeded (or was skipped) no external tool is invoked at all, no
\* final output is written, and every final output is still there.
C1_IdempotentSkip ==
  /\ \A k \in Keys :
       entryExists[k] =>
         /\ CallsOf(k) = {}
         /\ physWrites[k] = 0
         /\ upc[k] = "returned" => outcome[k] = Some("skip")
  /\ (prevAllOk /\ mainpc # "start") =>
       /\ toolcalls = {}
       /\ \A k \in Units :
            /\ physWrites[k] = 0
            /\ outcome[k] \in {None, Some("skip")}
            /\ OutPhys(k) \in fs

\* a second run, after a first in which both units succeeded, has ended with
\* both units skipped
C1_Witness ==
  /\ run_no = 2 /\ prevAllOk /\ mainpc = "done"
  /\ Cardinality(Units) = 2
  /\ \A k \in Units : entryExists[k] /\ outcome[k] = Some("skip")

\* C2: Dispatcher failure isolation. When main() has ended, it ended normally
\* and the collection loop has reported the outcome of every submitted unit,
\* whatever the outcomes of the other units were.
C2_FailureIsolation ==
  Terminal =>
    /\ mainpc = "done"
    /\ \A k \in Units : upc[k] = "returned" /\ k \in reported

\* C3: Failed timestamps leave no final output file. A unit that has ended
\* with the failure outcome has no final output file.
C3_FailedLeavesNoOutput ==
  \A k \in Keys : outcome[k] = Some("error") => OutPhys(k) \notin fs

FullOrder ==
  <<"skipcheck", "mosaic", "materialize", "reproject", "physical", "cleanup">>
OrderWithoutMaterialize ==
  <<"skipcheck", "mosaic", "reproject", "physical", "cleanup">>

\* the stages of unit k were started in the given order, each at most once
\* and only after the ones before it; a non-zero exit of an external tool
\* ended the unit with the failure outcome at that stage; a unit that ended
\* ok went through every stage
StagesFollow(k, order) ==
  /\ IsPrefix(hist[k], order)
  /\ failedAt[k] # None =>
       /\ upc[k] = "returned" /\ outcome[k] = Some("error")
       /\ hist[k][Len(hist[k])] = failedAt[k][1]
  /\ outcome[k] = Some("ok") => hist[k] = order

\* C4 as stated: in every unit the stages run in the order skip-check,
\* mosaic, materialize, reproject, physical-value pass, cleanup, each after
\* the previous one returned, at most once, and a non-zero tool exit ends the
\* unit with a failure and no later stage.
C4_SequentialStagesAsStated ==
  \A k \in Keys : StagesFollow(k, FullOrder)

\* C4 as amended: the same, with the order skip-check, mosaic, materialize,
\* reproject, physical-value pass, cleanup in the mod16 script and the order
\* skip-check, mosaic, reproject, physical-value pass, cleanup (no materialize
\* stage) in the pre_ET script.
C4_SequentialStages ==
  \A k \in Keys :
    StagesFollow(k, IF variant = "mod16" THEN FullOrder ELSE OrderWithoutMaterialize)

\* gdalwarp exited non-zero in a mod16 unit after mosaic and materialize
\* succeeded, and the unit ended with the failure outcome
C4_Witness ==
  \E k \in Keys :
    /\ variant = "mod16"
    /\ failedAt[k] = Some("reproject")
    /\ hist[k] = <<"skipcheck", "mosaic", "materialize", "reproject">>
    /\ outcome[k] = Some("error")

\* C8: Unit isolation under concurrency. Apart from the two shared roots (the
\* output directory and the scratch root), every path some unit created,
\* wrote, read or removed was touched by that unit only, and carries that
\* unit's timestamp key in its directory or file name.
C8_UnitIsolation ==
  \A k \in Keys : \A p \in touched[k] \ {OutDir, TmpRoot} :
    /\ \A j \in Keys \ {k} : p \notin touched[j]
    /\ (p.sub = k \/ p.stamp = k)

\* two units in flight at once, both past the mosaic and each with files in
\* its own temp directory
C8_Witness ==
  /\ Cardinality(inflight) = 2
  /\ \A k \in inflight :
       /\ upc[k] = "reproject"
       /\ VrtFile(k) \in touched[k]
       /\ VrtFile(k) \in fs

\* C9 as stated: every intermediate artifact (mosaic descriptor,
\* source-projection raster, reprojected-but-unscaled raster) lies in the
\* unit's temp directory, and after a success with no removal error none of
\* them nor the temp directory exists; a removal failure still gives success.
C9_IntermediatesAreScratchAsStated ==
  \A k \in Keys :
    /\ outcome[k] = Some("ok") =>
         /\ OutWarp(k).root = "tmp" /\ OutWarp(k).sub = k
         /\ ~rmErr[k] =>
              {VrtFile(k), NcSinu(k), FileList(k), TmpDir(k), OutWarp(k)} \cap fs = {}
    /\ (upc[k] = "returned" /\ rmErr[k]) => outcome[k] = Some("ok")

\* C9 as amended: the mosaic descriptor and the source-projection raster (and
\* pre_ET's file list) lie in the unit's temp directory, and after a success
\* with no removal error none of them nor the temp directory exists; the
\* reprojected-but-unscaled raster lies in the output directory and is kept;
\* a removal failure during cleanup still gives the success outcome.
C9_IntermediatesAreScratch ==
  \A k \in Keys :
    /\ \A p \in {VrtFile(k), NcSinu(k), FileList(k)} :
         p.root = "tmp" /\ p.sub = k
    /\ outcome[k] = Some("ok") =>
         /\ OutWarp(k).root = "out" /\ OutWarp(k) \in fs
         /\ ~rmErr[k] =>
              {VrtFile(k), NcSinu(k), FileList(k), TmpDir(k)} \cap fs = {}
    /\ (upc[k] = "returned" /\ rmErr[k]) => outcome[k] = Some("ok")

\* one unit ended ok with a clean cleanup, another ended ok although a
\* removal failed and left its temp directory behind
C9_Witness ==
  \E k \in Keys : \E j \in Keys :
    /\ outcome[k] = Some("ok") /\ ~rmErr[k] /\ TmpDir(k) \notin fs
    /\ outcome[j] = Some("ok") /\ rmErr[j] /\ TmpDir(j) \in fs

\* C10: Bounded, exactly-once dispatch. In one run every unit's pipeline is
\* started at most once, and exactly once when main() has ended; units that
\* were not submitted are never started; at most max_workers units are in
\* flight; the units in flight are exactly those inside the pipeline.
C10_BoundedExactlyOnce ==
  /\ \A k \in Keys : starts[k] <= 1
  /\ \A k \in Keys \ Units : mainpc # "start" => starts[k] = 0
  /\ Terminal => \A k \in Units : starts[k] = 1 /\ upc[k] = "returned"
  /\ Cardinality(inflight) <= max_workers
  /\ inflight = {k \in Keys : upc[k] \notin {"none", "queued", "returned"}}
  /\ pending = {k \in Keys : upc[k] = "queued"}

\* a pool of one worker is busy with one unit while another unit waits
C10_Witness ==
  /\ max_workers = 1
  /\ Cardinality(inflight) = 1
  /\ pending # {}
  /\ \E k \in inflight : upc[k] = "physical"

=============================================================================
